---- MODULE Spec2Model ----
(***************************************************************************)
(* Model of create_github_labels.py: one sequential run that lists the     *)
(* labels of a repository, deletes every listed label, then creates the    *)
(* labels of labels_to_create.  The remote repository (the label set and   *)
(* the status of every response) is the environment.                       *)
(***************************************************************************)
EXTENDS Integers, Sequences, FiniteSets, TLC

VARIABLES
    pc,               \* position of the run: "list", "delete", "create", "done", "crashed"
    repo_owner,       \* input() at line 128
    repo_name,        \* input() at line 130
    token,            \* getpass() at line 131
    existing_labels,  \* response.json() of the listing, line 69
    i,                \* position of the for loop at line 70 (1-based)
    j,                \* position of the for loop at line 105 (1-based)
    requests,         \* every HTTP request issued so far, in order
    responses,        \* the response received for each request that returned
    output,           \* the lines printed so far
    fault_at,         \* index of the request that raised instead of returning, 0 if none
    remote,           \* the label set of the remote repository
    remote0,          \* the label set of the remote repository when the run started
    failures          \* number of refusals the server has chosen so far

vars == <<pc, repo_owner, repo_name, token, existing_labels, i, j, requests,
          responses, output, fault_at, remote, remote0, failures>>

\* ------------------------------------------------------------------ bounds
\* The server refuses at most this many delete/create requests of one run
\* (a conflict on an existing name is never counted: it is not a choice).
MaxFailures == 2

\* ------------------------------------------------------------- the catalog
Label(n, c, d) == [name |-> n, color |-> c, description |-> d]

labels_to_create ==
    <<
       Label("bug", "d73a4a",
             "Indicates a problem that impairs or prevents the functions of the product"),
       Label("dependencies", "0366d6",
             "Concerns outdated, broken, or problematic dependencies"),
       Label("documentation", "0075ca",
             "Relates to improvements or additions to documentation"),
       Label("duplicate", "cfd3d7",
             "Signals an issue that has already been reported, often with a reference to the original"),
       Label("enhancement", "a2eeef",
             "Suggests a new feature or improvement to existing functionality"),
       Label("environment", "f9d0c4",
             "Involves issues related to the project's development, testing, or production environment"),
       Label("good first issue", "7057ff",
             "Suitable for first-time contributors, these issues are a great way to get involved"),
       Label("help wanted", "008672",
             "Requests assistance from the community or team members for an issue or initiative"),
       Label("invalid", "e4e669",
             "Marks an issue that is no longer relevant or that has been filed incorrectly"),
       Label("performance", "fbca04",
             "Highlights areas of the codebase that could be optimized for speed and efficiency"),
       Label("question", "d876e3",
             "Seeks further information or clarification on a topic or issue"),
       Label("refactor", "1d76db",
             "Suggests improvements for code organization or architecture without altering behavior"),
       Label("security", "b60205",
             "Concerns or reports related to security vulnerabilities"),
       Label("test-case", "5319e7",
             "Indicates missing tests or proposes new ones for better coverage"),
       Label("user-story", "c2e0c6",
             "Describes a software feature from an end-user perspective, focusing on their needs and experiences"),
       Label("violation", "e11d21",
             "Pertains to vulnerabilities that could impact the security of the project"),
       Label("wontfix", "000000",
             "Acknowledges an issue that the project has decided not to address at the present time")
    >>

api_url == "https://api.github.com"

headers ==
    [Authorization |-> <<"token ", token>>,
     Accept        |-> "application/vnd.github.v3+json"]

\* f"{api_url}/repos/{repo_owner}/{repo_name}/labels", as its segments
LabelsUrl == <<api_url, "repos", repo_owner, repo_name, "labels">>

\* f"{api_url}/repos/{repo_owner}/{repo_name}/labels/{label['name']}"
LabelUrl(label) == LabelsUrl \o <<label.name>>

GetRequest == [method |-> "GET", url |-> LabelsUrl, headers |-> headers]

DeleteRequest(label) ==
    [method |-> "DELETE", url |-> LabelUrl(label), headers |-> headers]

PostRequest(label) ==
    [method |-> "POST", url |-> LabelsUrl, headers |-> headers, json |-> label]

\* --------------------------------------------------------- the environment
Owners == {"Jekwwer"}
Repos  == {"c-cpp-cmake-template"}
Tokens == {"ghp_secret"}

\* Labels a repository may hold before the run: two of a fresh repository's
\* defaults (their names are catalog names) and one that is not in the catalog.
PreExisting ==
    { Label("bug", "d73a4a", "Something isn't working"),
      Label("wontfix", "ffffff", "This will not be worked on"),
      Label("triage", "ededed", "Needs a first look") }

RECURSIVE Listings(_)
\* every sequence without repetition of labels of S: a listing shows labels
\* of the repository, in the server's order, possibly not all of them (a page)
Listings(S) ==
    { <<>> } \cup UNION { { <<x>> \o l : l \in Listings(S \ {x}) } : x \in S }

ListStatuses   == {200, 401, 404}
DeleteRefusals == {403}
CreateRefusals == {403}

\* the body the server sends with a status
Content(status) ==
    CASE status = 200 -> "[...]"
      [] status = 201 -> "{...}"
      [] status = 204 -> ""
      [] status = 401 -> "Bad credentials"
      [] status = 403 -> "Resource not accessible"
      [] status = 404 -> "Not Found"
      [] status = 422 -> "already_exists"

Response(status) == [status_code |-> status, content |-> Content(status)]

ListResponse(status, listing) ==
    [status_code |-> status, content |-> Content(status), json |-> listing]

HasName(S, n) == \E l \in S : l.name = n

WithoutName(S, n) == { l \in S : l.name # n }

\* what the server may answer to the listing GET
ServerList ==
    { ListResponse(200, l) : l \in Listings(remote) }
        \cup { ListResponse(s, <<>>) : s \in ListStatuses \ {200} }

\* what the server may answer to a DELETE of a label, with the label set after it
ServerDelete(label) ==
    IF HasName(remote, label.name)
    THEN { <<Response(204), WithoutName(remote, label.name)>> }
             \cup (IF failures < MaxFailures
                   THEN { <<Response(s), remote>> : s \in DeleteRefusals }
                   ELSE {})
    ELSE { <<Response(404), remote>> }

\* what the server may answer to a POST of a label, with the label set after it
ServerCreate(label) ==
    IF HasName(remote, label.name)
    THEN { <<Response(422), remote>> }
    ELSE { <<Response(201), remote \cup {label}>> }
             \cup (IF failures < MaxFailures
                   THEN { <<Response(s), remote>> : s \in CreateRefusals }
                   ELSE {})

Refused(response) ==
    IF response.status_code \in DeleteRefusals \cup CreateRefusals THEN 1 ELSE 0

\* ------------------------------------------------------------- the program
Init ==
    /\ pc = "list"
    /\ repo_owner \in Owners
    /\ repo_name \in Repos
    /\ token \in Tokens
    /\ existing_labels = <<>>
    /\ i = 1
    /\ j = 1
    /\ requests = <<>>
    /\ responses = <<>>
    /\ output = <<>>
    /\ fault_at = 0
    /\ remote \in SUBSET PreExisting
    /\ remote0 = remote
    /\ failures = 0

Inputs == <<repo_owner, repo_name, token, remote0>>

\* print(f"Successfully deleted label: {label['name']}")
DeletedLine(label) == <<"Successfully deleted label: ", label.name>>

\* variant: the failure line carries the response object, not its body
DeleteFailedLineObject(label, response) ==
    <<"Failed to delete label: ", label.name, " - ", "<Response>">>

\* print(f"Failed to delete label: {label['name']} - {delete_response.content}")
DeleteFailedLine(label, response) ==
    <<"Failed to delete label: ", label.name, " - ", response.content>>

\* print(f"Successfully created label: {label['name']}")
CreatedLine(label) == <<"Successfully created label: ", label.name>>

\* print(f"Failed to create label: {label['name']} - {response.content}")
CreateFailedLine(label, response) ==
    <<"Failed to create label: ", label.name, " - ", response.content>>

\* a request that returned a response
Returned(request, response) ==
    /\ requests' = Append(requests, request)
    /\ responses' = Append(responses, response)
    /\ fault_at' = fault_at

\* a request that raised: nothing in this program catches the exception
Raised(request) ==
    /\ requests' = Append(requests, request)
    /\ responses' = responses
    /\ fault_at' = Len(requests) + 1
    /\ pc' = "crashed"

\* variant: the loop over the listed labels leaves out the last one
AfterDeleteStopsEarly(labels, n) == IF n >= Len(labels) THEN "create" ELSE "delete"

\* where the run is once the for loop of delete_existing_labels is at index n
\* of the list labels: delete_existing_labels returns when the list is exhausted
\* and the module goes on to create_labels (lines 229-232)
AfterDelete(labels, n) == IF n > Len(labels) THEN "create" ELSE "delete"

\* variant: the loop over the catalog leaves out the last entry
AfterCreateStopsEarly(n) == IF n >= Len(labels_to_create) THEN "done" ELSE "create"

\* where the run is once the for loop of create_labels is at index n
AfterCreate(n) == IF n > Len(labels_to_create) THEN "done" ELSE "create"

Reverse(s) == [k \in 1..Len(s) |-> s[Len(s) + 1 - k]]

\* variant: the listed labels are deleted last to first
ListSucceededReversed ==
    /\ pc = "list"
    /\ \E response \in ServerList :
        /\ response.status_code = 200
        /\ Returned(GetRequest, response)
        /\ existing_labels' = Reverse(response.json)
        /\ pc' = AfterDelete(response.json, 1)
    /\ UNCHANGED <<Inputs, i, j, output, remote, failures>>

\* the listing GET returns 200: the body becomes the list to delete
ListSucceeded ==
    /\ pc = "list"
    /\ \E response \in ServerList :
        /\ response.status_code = 200
        /\ Returned(GetRequest, response)
        /\ existing_labels' = response.json
        /\ pc' = AfterDelete(response.json, 1)
    /\ UNCHANGED <<Inputs, i, j, output, remote, failures>>

\* variant: a failed listing is raised (response.raise_for_status())
ListFailedRaises ==
    /\ pc = "list"
    /\ \E response \in ServerList :
        /\ response.status_code # 200
        /\ Returned(GetRequest, response)
    /\ pc' = "crashed"
    /\ UNCHANGED <<Inputs, existing_labels, i, j, output, remote, failures>>

\* variant: a failed listing ends the run before create_labels
ListFailedAborts ==
    /\ pc = "list"
    /\ \E response \in ServerList :
        /\ response.status_code # 200
        /\ Returned(GetRequest, response)
    /\ pc' = "done"
    /\ UNCHANGED <<Inputs, existing_labels, i, j, output, remote, failures>>

\* the listing GET returns another status: the if at line 68 has no else
ListFailed ==
    /\ pc = "list"
    /\ \E response \in ServerList :
        /\ response.status_code # 200
        /\ Returned(GetRequest, response)
    /\ pc' = "create"
    /\ UNCHANGED <<Inputs, existing_labels, i, j, output, remote, failures>>

\* requests.get raises
ListRaised ==
    /\ pc = "list"
    /\ Raised(GetRequest)
    /\ UNCHANGED <<Inputs, existing_labels, i, j, output, remote, failures>>

\* one iteration of the loop at line 70 whose DELETE returns 204
DeleteSucceeded ==
    /\ pc = "delete"
    /\ LET label == existing_labels[i]
       IN  \E answer \in ServerDelete(label) :
            /\ answer[1].status_code = 204
            /\ Returned(DeleteRequest(label), answer[1])
            /\ output' = Append(output, DeletedLine(label))
            /\ remote' = answer[2]
            /\ failures' = failures + Refused(answer[1])
    /\ i' = i + 1
    /\ pc' = AfterDelete(existing_labels, i + 1)
    /\ UNCHANGED <<Inputs, existing_labels, j>>

\* variant: a refused DELETE is sent again
DeleteFailedRetries ==
    /\ pc = "delete"
    /\ LET label == existing_labels[i]
       IN  \E answer \in ServerDelete(label) :
            /\ answer[1].status_code # 204
            /\ Returned(DeleteRequest(label), answer[1])
            /\ output' = Append(output, DeleteFailedLine(label, answer[1]))
            /\ remote' = answer[2]
            /\ failures' = failures + Refused(answer[1])
    /\ i' = i
    /\ pc' = "delete"
    /\ UNCHANGED <<Inputs, existing_labels, j>>

\* one iteration of the loop at line 70 whose DELETE returns another status
DeleteFailed ==
    /\ pc = "delete"
    /\ LET label == existing_labels[i]
       IN  \E answer \in ServerDelete(label) :
            /\ answer[1].status_code # 204
            /\ Returned(DeleteRequest(label), answer[1])
            /\ output' = Append(output, DeleteFailedLine(label, answer[1]))
            /\ remote' = answer[2]
            /\ failures' = failures + Refused(answer[1])
    /\ i' = i + 1
    /\ pc' = AfterDelete(existing_labels, i + 1)
    /\ UNCHANGED <<Inputs, existing_labels, j>>

\* variant: the exception of requests.delete is caught and the loop goes on
DeleteRaisedCaught ==
    /\ pc = "delete"
    /\ LET label == existing_labels[i]
       IN  /\ requests' = Append(requests, DeleteRequest(label))
           /\ responses' = Append(responses, Response(404))
           /\ output' = Append(output, DeleteFailedLine(label, Response(404)))
           /\ fault_at' = Len(requests) + 1
           /\ remote' \in {remote, WithoutName(remote, label.name)}
    /\ i' = i + 1
    /\ pc' = AfterDelete(existing_labels, i + 1)
    /\ UNCHANGED <<Inputs, existing_labels, j, failures>>

\* requests.delete raises; the server may or may not have deleted the label
DeleteRaised ==
    /\ pc = "delete"
    /\ LET label == existing_labels[i]
       IN  /\ Raised(DeleteRequest(label))
           /\ remote' \in {remote, WithoutName(remote, label.name)}
    /\ UNCHANGED <<Inputs, existing_labels, i, j, output, failures>>

\* one iteration of the loop at line 105 whose POST returns 201
CreateSucceeded ==
    /\ pc = "create"
    /\ LET label == labels_to_create[j]
       IN  \E answer \in ServerCreate(label) :
            /\ answer[1].status_code = 201
            /\ Returned(PostRequest(label), answer[1])
            /\ output' = Append(output, CreatedLine(label))
            /\ remote' = answer[2]
            /\ failures' = failures + Refused(answer[1])
    /\ j' = j + 1
    /\ pc' = AfterCreate(j + 1)
    /\ UNCHANGED <<Inputs, existing_labels, i>>

\* variant: a refused POST ends the loop
CreateFailedBreaks ==
    /\ pc = "create"
    /\ LET label == labels_to_create[j]
       IN  \E answer \in ServerCreate(label) :
            /\ answer[1].status_code # 201
            /\ Returned(PostRequest(label), answer[1])
            /\ output' = Append(output, CreateFailedLine(label, answer[1]))
            /\ remote' = answer[2]
            /\ failures' = failures + Refused(answer[1])
    /\ j' = j + 1
    /\ pc' = "done"
    /\ UNCHANGED <<Inputs, existing_labels, i>>

\* one iteration of the loop at line 105 whose POST returns another status
CreateFailed ==
    /\ pc = "create"
    /\ LET label == labels_to_create[j]
       IN  \E answer \in ServerCreate(label) :
            /\ answer[1].status_code # 201
            /\ Returned(PostRequest(label), answer[1])
            /\ output' = Append(output, CreateFailedLine(label, answer[1]))
            /\ remote' = answer[2]
            /\ failures' = failures + Refused(answer[1])
    /\ j' = j + 1
    /\ pc' = AfterCreate(j + 1)
    /\ UNCHANGED <<Inputs, existing_labels, i>>

\* requests.post raises; the server may or may not have created the label
CreateRaised ==
    /\ pc = "create"
    /\ LET label == labels_to_create[j]
       IN  /\ Raised(PostRequest(label))
           /\ remote' \in IF HasName(remote, label.name)
                          THEN {remote}
                          ELSE {remote, remote \cup {label}}
    /\ UNCHANGED <<Inputs, existing_labels, i, j, output, failures>>

Next ==
    \/ ListSucceeded
    \/ ListFailed
    \/ ListRaised
    \/ DeleteSucceeded
    \/ DeleteFailed
    \/ DeleteRaised
    \/ CreateSucceeded
    \/ CreateFailed
    \/ CreateRaised

Spec == Init /\ [][Next]_vars

\* the run is one thread and every call blocks until it returns or raises
FairSpec == Spec /\ WF_vars(Next)

\* ------------------------------------------------------ reading the run
Gets    == SelectSeq(requests, LAMBDA r : r.method = "GET")
Deletes == SelectSeq(requests, LAMBDA r : r.method = "DELETE")
Posts   == SelectSeq(requests, LAMBDA r : r.method = "POST")

\* the listing call has returned, with this status
Listed(status) == Len(responses) >= 1 /\ responses[1].status_code = status
ListingReturned == Len(responses) >= 1

\* delete_existing_labels has returned (the run is in, or past, create_labels)
PurgeReturned ==
    \/ pc \in {"create", "done"}
    \/ pc = "crashed" /\ Len(Posts) > 0

\* delete_existing_labels has just returned
AtPurgeReturn == pc = "create" /\ j = 1

\* the URL a DELETE of the label named n is addressed to
UrlOfName(n) ==
    <<"https://api.github.com", "repos", repo_owner, repo_name, "labels", n>>

CatalogSet == { labels_to_create[k] : k \in 1..Len(labels_to_create) }

\* every catalog entry has received exactly one POST, and nothing else has
AllCatalogPosted ==
    LET posts == Posts
    IN  /\ Len(posts) = Len(labels_to_create)
        /\ { posts[k].json : k \in 1..Len(posts) } = CatalogSet
        /\ Cardinality(CatalogSet) = Len(posts)

\* ---------------------------------------------------------------- claims

\* C1: when the listing GET returns 200, the DELETE requests are, one for one,
\* the labels of the returned list, each addressed to .../labels/{name}: no
\* DELETE for a name that is not listed, none twice, and all of them once
\* delete_existing_labels has returned.
C1_DeleteOncePerListedLabel ==
    Listed(200) =>
        LET listing == responses[1].json
            deletes == Deletes
        IN  /\ Len(deletes) <= Len(listing)
            /\ \A k \in 1..Len(deletes) : deletes[k].url = UrlOfName(listing[k].name)
            /\ \A a, b \in 1..Len(deletes) : a # b => deletes[a].url # deletes[b].url
            /\ PurgeReturned => Len(deletes) = Len(listing)

C1_Witness ==
    /\ Listed(200)
    /\ PurgeReturned
    /\ Len(responses[1].json) = 3
    /\ Len(Deletes) = 3
    /\ \E k \in 2..3 : responses[k].status_code # 204

\* C2 (as stated): a complete run issues exactly 16 POST requests, one per
\* catalog entry.
C2_SixteenCreates ==
    pc = "done" => Len(Posts) = 16 /\ Len(labels_to_create) = 16

\* C2 (amended): the catalog has 17 entries; a complete run issues exactly 17
\* POST requests, one per catalog entry, each with a JSON body of exactly the
\* fields name, color and description.
C2_SeventeenCreates ==
    LET posts == Posts
    IN  /\ Len(labels_to_create) = 17
        /\ Len(posts) <= 17
        /\ \A k \in 1..Len(posts) :
              /\ DOMAIN posts[k].json = {"name", "color", "description"}
              /\ posts[k].json \in CatalogSet
              /\ \A m \in 1..(k - 1) : posts[m].json # posts[k].json
        /\ pc = "done" => Len(posts) = 17 /\ AllCatalogPosted

C2_Witness == pc = "done" /\ Len(Posts) = 17 /\ fault_at = 0

\* C3: when the listing GET returns a status other than 200, no DELETE is
\* issued, nothing is printed for the purge and nothing is raised: the run is
\* in create_labels, and when it gets there the remote label set is the one
\* the run started with.
C3_FailedListingSkipsPurge ==
    (ListingReturned /\ ~Listed(200)) =>
        /\ Len(Deletes) = 0
        /\ \/ pc \in {"create", "done"}
           \/ pc = "crashed" /\ fault_at >= 2 /\ requests[fault_at].method = "POST"
        /\ Len(output) = Len(Posts) - (IF fault_at = 0 THEN 0 ELSE 1)
        /\ AtPurgeReturn => remote = remote0 /\ output = <<>> /\ fault_at = 0

C3_Witness ==
    /\ Listed(404)
    /\ AtPurgeReturn
    /\ remote = PreExisting
    /\ requests = <<GetRequest>>

\* C4: the creation phase runs whatever the purge phase answered: unless a
\* request raises, every run comes to a state where every catalog entry has
\* received its create request.
C4_CreationRunsUnconditionally ==
    <>(fault_at # 0 \/ (pc = "done" /\ AllCatalogPosted))

C4_Witness ==
    /\ Listed(404)
    /\ pc = "done"
    /\ remote0 # {}
    /\ AllCatalogPosted

\* C5: the requests of a run are ordered: the one listing GET is first, every
\* DELETE comes before the first POST, the DELETEs follow the order of the
\* listing response and the POSTs follow the order of labels_to_create.
C5_PurgeThenSeedOrder ==
    /\ Len(requests) >= 1 => requests[1].method = "GET"
    /\ Len(Gets) <= 1
    /\ \A k \in 1..(Len(requests) - 1) :
          requests[k].method = "POST" => requests[k + 1].method = "POST"
    /\ LET posts == Posts
       IN  \A k \in 1..Len(posts) : posts[k].json = labels_to_create[k]
    /\ LET deletes == Deletes
       IN  Len(deletes) > 0 =>
              /\ Listed(200)
              /\ Len(deletes) <= Len(responses[1].json)
              /\ \A k \in 1..Len(deletes) :
                    deletes[k].url[6] = responses[1].json[k].name

C5_Witness ==
    /\ pc = "done"
    /\ Len(Deletes) = 3
    /\ Len(Posts) = 17
    /\ responses[1].json[1].name = "wontfix"
    /\ responses[1].json[3].name = "bug"

\* the line printed for the response to the request at index k (the GET at
\* index 1 prints nothing, every later response prints one line)
LineOf(k) == output[k - 1]

OneLinePerResponse == Len(output) = (IF Len(responses) = 0 THEN 0 ELSE Len(responses) - 1)

\* C6: a create response of 201 prints the "created" line of that label, any
\* other status prints its "failed" line with the response body, and the loop
\* goes on: a complete run has sent every catalog entry once (no retry), and
\* no DELETE follows a POST (no rollback).
C6_CreateOutcomes ==
    /\ OneLinePerResponse
    /\ \A k \in 1..Len(responses) :
          requests[k].method = "POST" =>
              LineOf(k) = IF responses[k].status_code = 201
                          THEN <<"Successfully created label: ", requests[k].json.name>>
                          ELSE <<"Failed to create label: ", requests[k].json.name,
                                 " - ", responses[k].content>>
    /\ LET posts == Posts
       IN  /\ \A k \in 1..Len(posts) : posts[k].json.name = labels_to_create[k].name
           /\ Len(posts) > 0 => requests[Len(requests)].method = "POST"
           /\ pc = "done" => Len(posts) = Len(labels_to_create)
           /\ (pc = "create" /\ fault_at = 0) => Len(posts) = j - 1

C6_Witness ==
    /\ pc = "done"
    /\ \E a, b, c \in 1..Len(responses) :
          /\ a < b /\ b < c
          /\ requests[a].method = "POST"
          /\ responses[a].status_code = 422
          /\ responses[a].content = "already_exists"
          /\ responses[b].status_code = 403
          /\ responses[c].status_code = 201
          /\ LineOf(b) = <<"Failed to create label: ", requests[b].json.name,
                           " - ", "Resource not accessible">>

\* C7: a delete response of 204 prints the "deleted" line of that label, any
\* other status prints its "failed" line with the response body, and the loop
\* goes on: once delete_existing_labels has returned, every listed label has
\* exactly one line.
C7_DeleteOutcomes ==
    /\ OneLinePerResponse
    /\ \A k \in 1..Len(responses) :
          requests[k].method = "DELETE" =>
              LineOf(k) = IF responses[k].status_code = 204
                          THEN <<"Successfully deleted label: ", requests[k].url[6]>>
                          ELSE <<"Failed to delete label: ", requests[k].url[6],
                                 " - ", responses[k].content>>
    /\ (Listed(200) /\ PurgeReturned) =>
          LET listing == responses[1].json
          IN  /\ Len(output) >= Len(listing)
              /\ \A k \in 1..Len(listing) :
                    /\ output[k][2] = listing[k].name
                    /\ output[k][1] \in {"Successfully deleted label: ",
                                         "Failed to delete label: "}
              /\ \A k \in (Len(listing) + 1)..Len(output) :
                    output[k][1] \in {"Successfully created label: ",
                                      "Failed to create label: "}

C7_Witness ==
    /\ Listed(200)
    /\ PurgeReturned
    /\ Len(responses[1].json) = 3
    /\ responses[2].status_code = 403
    /\ responses[3].status_code = 204
    /\ output[1] = <<"Failed to delete label: ", responses[1].json[1].name,
                     " - ", "Resource not accessible">>
    /\ output[2] = <<"Successfully deleted label: ", responses[1].json[2].name>>

\* C8 (as stated): when delete_existing_labels returns, the remote label set
\* is empty, so that no create request meets an existing name.
C8_PurgeLeavesNoLabel ==
    /\ AtPurgeReturn => remote = {}
    /\ \A k \in 1..Len(responses) : responses[k].status_code # 422

\* the server refused nothing, listed every label and no request raised
ServerAcceptedAll ==
    /\ Listed(200)
    /\ { responses[1].json[k] : k \in 1..Len(responses[1].json) } = remote0
    /\ \A k \in 2..Len(responses) :
          responses[k].status_code = (IF requests[k].method = "DELETE" THEN 204 ELSE 201)
    /\ fault_at = 0

\* C9: when the listing returns 200 with every label of the repository and
\* the server accepts every delete and every create, the remote label set is
\* first cleared and then repopulated: during the purge it is what is left of
\* the initial set, at the return of the purge it is empty, during the
\* creation it is the catalog entries sent so far, and at the end of the run
\* it is exactly the catalog.
C9_RunReplacesLabelSet ==
    ServerAcceptedAll =>
        /\ pc = "delete" =>
              remote = remote0 \ { responses[1].json[k] : k \in 1..Len(Deletes) }
        /\ AtPurgeReturn => remote = {}
        /\ pc \in {"create", "done"} =>
              remote = { labels_to_create[k] : k \in 1..(Len(requests) - 1 - Len(Deletes)) }
        /\ pc = "done" => remote = CatalogSet
        /\ pc # "crashed"

C9_Witness ==
    /\ ServerAcceptedAll
    /\ pc = "done"
    /\ remote0 = PreExisting
    /\ remote = CatalogSet
    /\ Cardinality(remote) = 17

\* C10: a request that raises ends the run: it is the last request, no
\* response and no line follows it, and when it is the GET or a DELETE no
\* POST is ever issued.
C10_FaultEndsRun ==
    /\ fault_at # 0 =>
          /\ pc = "crashed"
          /\ Len(requests) = fault_at
          /\ Len(responses) = fault_at - 1
          /\ OneLinePerResponse
          /\ requests[fault_at].method \in {"GET", "DELETE"} =>
                \A k \in 1..Len(requests) : requests[k].method # "POST"
    /\ pc = "crashed" => fault_at # 0 /\ ~ENABLED Next

C10_Witness ==
    /\ fault_at = 3
    /\ requests[fault_at].method = "DELETE"
    /\ Len(existing_labels) = 3
    /\ Len(Posts) = 0
    /\ pc = "crashed"

====
